---------------------------- MODULE Spec2Model ----------------------------
(***************************************************************************)
(* Time-locked balances of graphene: the five time_lock_* operations       *)
(* (create, deposit, withdraw, abort_withdrawal, complete_withdrawal),     *)
(* their validate() methods, and their evaluators' do_evaluate/do_apply,   *)
(* over the account balances, the time_lock_balance_object index and the   *)
(* time_lock_withdrawal_object index of the chain database.                *)
(***************************************************************************)
EXTENDS Integers, Sequences, FiniteSets, TLC

(* ------------------------------ bounds -------------------------------- *)

\* Largest number of objects (time_lock_balance_objects and
\* time_lock_withdrawal_objects together) created in a run.
MaxObjects == 3
\* Last head block time of a run.
MaxTime == 1

(* ------------------------------- time --------------------------------- *)

\* Times and review periods are counted in units of 2^30 seconds. An
\* fc::time_point_sec holds its seconds in 32 bits: four units.
TimePointSecWrap == 4

\* time_point_sec + offset: the offset is taken as a 32-bit unsigned number
\* and the sum is again a time_point_sec.
time_point_sec_plus(t, offset) ==
    (t + (offset % TimePointSecWrap)) % TimePointSecWrap

(* ------------------------------ inputs -------------------------------- *)

\* Registered accounts, and the account ids an operation may state.
Accounts == {"alice", "bob", "carol"}
AccountIds == Accounts \cup {"nobody"}
\* Registered assets, and the asset ids an operation may state.
Assets == {"CORE", "USD"}
AssetIds == Assets \cup {"NIL"}

BalanceIds == 1..MaxObjects
WithdrawalIds == 1..(MaxObjects - 1)
\* The amounts an operation may state (0 is refused by most validate()s).
Amounts == 0..2
ReviewPeriods == 0..1
\* A review period of 2^32 seconds: an int64_t holds it, the 32 bits of a
\* time_point_sec do not.
LongReviewPeriods == {TimePointSecWrap}

None == "-"

\* The account balances of the genesis state: alice holds 2 CORE.
GenesisBalances ==
    [a \in Accounts |-> [k \in Assets |->
        IF a = "alice" /\ k = "CORE" THEN 2 ELSE 0]]

VARIABLES
    account_balances,       \* account -> asset -> amount (database::get_balance)
    time_lock_balances,     \* sequence of time_lock_balance_object, id = index
    time_lock_withdrawals,  \* withdrawal id -> time_lock_withdrawal_object
    next_withdrawal_id,     \* next id of the time_lock_withdrawal_index
    head_block_time,        \* database::head_block_time()
    last,                   \* the operation applied last (a rejected
                            \* operation leaves no trace in the database)
    settled                 \* withdrawal id -> the abort and complete
                            \* operations applied to it, in order

vars == <<account_balances, time_lock_balances, time_lock_withdrawals,
          next_withdrawal_id, head_block_time, last, settled>>

(* ----------------------------- operations ----------------------------- *)

\* The fields of the five operation structs; a field an operation does not
\* have is None (ids) or 0 (numbers).
Op(kind, fee, account, balance, withdrawal, recipient, amount, asset_id, period) ==
    [kind |-> kind, fee |-> fee, account |-> account, balance |-> balance,
     withdrawal |-> withdrawal, recipient |-> recipient, amount |-> amount,
     asset_id |-> asset_id, review_period_seconds |-> period]

Blank(kind) == Op(kind, 0, None, 0, 0, None, 0, None, 0)

\* Operations with a fee their validate() accepts, and one of each kind with
\* a fee it refuses.
CreateOps ==
    { Op("create", 1, a, 0, 0, None, q, k, p) :
        a \in {"alice", "nobody"}, q \in {-1} \cup Amounts,
        k \in {"CORE", "NIL"}, p \in ReviewPeriods }
    \cup { Op("create", 0, "alice", 0, 0, None, 1, "CORE", 1) }

\* Creates whose review period validate() accepts and 32 bits cannot hold.
LongCreateOps ==
    { Op("create", 1, "alice", 0, 0, None, q, "CORE", p) :
        q \in Amounts, p \in LongReviewPeriods }

DepositOps ==
    { Op("deposit", 1, a, b, 0, None, q, k, 0) :
        a \in Accounts, b \in BalanceIds, q \in Amounts, k \in Assets }
    \cup { Op("deposit", 0, "alice", 1, 0, None, 1, "CORE", 0) }

WithdrawOps ==
    { Op("withdraw", 1, a, b, 0, r, q, k, 0) :
        a \in Accounts, b \in BalanceIds, r \in {"bob", "nobody"},
        q \in Amounts, k \in Assets }
    \cup { Op("withdraw", 0, "alice", 1, 0, "bob", 1, "CORE", 0) }

AbortOps ==
    { Op("abort", 0, a, 0, w, None, 0, None, 0) :
        a \in Accounts, w \in WithdrawalIds }
    \cup { Op("abort", -1, "alice", 0, 1, None, 0, None, 0) }

CompleteOps ==
    { Op("complete", 0, a, 0, w, r, q, k, 0) :
        a \in Accounts, w \in WithdrawalIds, r \in Accounts, q \in Amounts,
        k \in Assets }
    \cup { Op("complete", -1, "bob", 0, 1, "bob", 1, "CORE", 0) }

(* ------------------------- validate() methods ------------------------- *)

time_lock_create_validate(o) ==
    /\ o.fee > 0
    /\ o.amount >= 0
    /\ o.review_period_seconds > 0

time_lock_deposit_validate(o) ==
    /\ o.fee > 0
    /\ o.amount > 0

time_lock_withdraw_validate(o) ==
    /\ o.fee > 0
    /\ o.amount > 0

time_lock_abort_withdrawal_validate(o) ==
    o.fee >= 0

time_lock_complete_withdrawal_validate(o) ==
    /\ o.fee >= 0
    /\ o.amount > 0

(* --------------------------- the database ----------------------------- *)

get_balance(account, asset_id) == account_balances[account][asset_id]

adjust_balance(account, asset_id, delta) ==
    [account_balances EXCEPT ![account][asset_id] = @ + delta]

HasBalance(id) == id \in 1..Len(time_lock_balances)
HasWithdrawal(id) == id \in DOMAIN time_lock_withdrawals

\* The asset (amount, asset_id) an operation states.
Asset(o) == [amount |-> o.amount, asset_id |-> o.asset_id]

\* asset >= asset, as the specification reads it: the quantities compared.
asset_ge(a, b) == a.amount >= b.amount

Remove(f, id) == [x \in DOMAIN f \ {id} |-> f[x]]

\* What processing an operation leaves behind: the error ("OK" when it was
\* applied) and the three stores.
Result(err, ledger, balances, withdrawals) ==
    [err |-> err, account_balances |-> ledger, time_lock_balances |-> balances,
     time_lock_withdrawals |-> withdrawals]

Rejected(err) ==
    Result(err, account_balances, time_lock_balances, time_lock_withdrawals)

(* ------------------------------ create -------------------------------- *)

\* The funds assertion of line 65 names op, which is not declared; o, the
\* operation evaluated, is what it reads here.
time_lock_create_do_evaluate(o) ==
    IF o.account \notin Accounts THEN "NotFound"
    ELSE IF o.asset_id \notin Assets THEN "NotFound"
    ELSE IF ~(get_balance(o.account, o.asset_id) >= o.amount)
        THEN "InsufficientFunds"
    ELSE "OK"

\* do_apply putting the new balance in the place of an empty one when there
\* is one.
create_do_apply_reusing_empty(o) ==
    LET empty == {id \in 1..Len(time_lock_balances) :
                     time_lock_balances[id].amount.amount = 0}
        created == [owner |-> o.account,
                    amount |-> Asset(o),
                    review_period_seconds |-> o.review_period_seconds]
    IN  Result("OK",
               adjust_balance(o.account, o.asset_id, -o.amount),
               IF empty = {}
               THEN Append(time_lock_balances, created)
               ELSE [time_lock_balances EXCEPT
                        ![CHOOSE id \in empty : \A x \in empty : id <= x] =
                            created],
               time_lock_withdrawals)

\* do_apply without db().adjust_balance (line 75).
create_do_apply_without_debit(o) ==
    Result("OK",
           account_balances,
           Append(time_lock_balances,
                  [owner |-> o.account,
                   amount |-> Asset(o),
                   review_period_seconds |-> o.review_period_seconds]),
           time_lock_withdrawals)

time_lock_create_do_apply(o) ==
    Result("OK",
           adjust_balance(o.account, o.asset_id, -o.amount),
           Append(time_lock_balances,
                  [owner |-> o.account,
                   amount |-> Asset(o),
                   review_period_seconds |-> o.review_period_seconds]),
           time_lock_withdrawals)

\* The create evaluator with the debit of line 75 made in do_evaluate, ahead
\* of the assertion of line 65.
create_evaluator_debit_first(o) ==
    LET err == time_lock_create_do_evaluate(o) IN
    IF ~time_lock_create_validate(o) THEN Rejected("InvalidArgument")
    ELSE IF err = "InsufficientFunds"
        THEN Result(err, adjust_balance(o.account, o.asset_id, -o.amount),
                    time_lock_balances, time_lock_withdrawals)
    ELSE IF err # "OK" THEN Rejected(err)
    ELSE time_lock_create_do_apply(o)

time_lock_create_evaluator(o) ==
    LET err == time_lock_create_do_evaluate(o) IN
    IF ~time_lock_create_validate(o) THEN Rejected("InvalidArgument")
    ELSE IF err # "OK" THEN Rejected(err)
    ELSE time_lock_create_do_apply(o)

(* ------------------------------ deposit ------------------------------- *)

\* do_evaluate with the assertion of line 95 made before that of line 91.
deposit_do_evaluate_asset_first(o) ==
    IF ~HasBalance(o.balance) THEN "NotFound"
    ELSE LET balance == time_lock_balances[o.balance] IN
        IF ~(balance.amount.asset_id = o.asset_id) THEN "AssetMismatch"
        ELSE IF ~(balance.owner = o.account) THEN "Unauthorized"
        ELSE IF ~(get_balance(o.account, o.asset_id) >= o.amount)
            THEN "InsufficientFunds"
        ELSE "OK"

time_lock_deposit_do_evaluate(o) ==
    IF ~HasBalance(o.balance) THEN "NotFound"
    ELSE LET balance == time_lock_balances[o.balance] IN
        IF ~(balance.owner = o.account) THEN "Unauthorized"
        ELSE IF ~(balance.amount.asset_id = o.asset_id) THEN "AssetMismatch"
        ELSE IF ~(get_balance(o.account, o.asset_id) >= o.amount)
            THEN "InsufficientFunds"
        ELSE "OK"

\* do_apply without the debit of the owner (line 107).
deposit_do_apply_without_debit(o) ==
    Result("OK",
           account_balances,
           [time_lock_balances EXCEPT ![o.balance].amount.amount = @ + o.amount],
           time_lock_withdrawals)

\* do_apply assigning the deposit to the balance where line 109 adds it.
deposit_do_apply_replacing(o) ==
    Result("OK",
           adjust_balance(o.account, o.asset_id, -o.amount),
           [time_lock_balances EXCEPT ![o.balance].amount.amount = o.amount],
           time_lock_withdrawals)

time_lock_deposit_do_apply(o) ==
    Result("OK",
           adjust_balance(o.account, o.asset_id, -o.amount),
           [time_lock_balances EXCEPT ![o.balance].amount.amount = @ + o.amount],
           time_lock_withdrawals)

time_lock_deposit_evaluator(o) ==
    LET err == time_lock_deposit_do_evaluate(o) IN
    IF ~time_lock_deposit_validate(o) THEN Rejected("InvalidArgument")
    ELSE IF err # "OK" THEN Rejected(err)
    ELSE time_lock_deposit_do_apply(o)

(* ------------------------------ withdraw ------------------------------ *)

\* do_evaluate with an assertion that the balance covers the withdrawal.
withdraw_do_evaluate_with_funds(o) ==
    IF ~HasBalance(o.balance) THEN "NotFound"
    ELSE LET balance == time_lock_balances[o.balance] IN
        IF ~(balance.owner = o.account) THEN "Unauthorized"
        ELSE IF ~(o.asset_id = balance.amount.asset_id) THEN "AssetMismatch"
        ELSE IF ~asset_ge(balance.amount, Asset(o)) THEN "InsufficientFunds"
        ELSE IF o.account \notin Accounts THEN "NotFound"
        ELSE IF o.recipient \notin Accounts THEN "NotFound"
        ELSE "OK"

time_lock_withdraw_do_evaluate(o) ==
    IF ~HasBalance(o.balance) THEN "NotFound"
    ELSE LET balance == time_lock_balances[o.balance] IN
        IF ~(balance.owner = o.account) THEN "Unauthorized"
        ELSE IF ~(o.asset_id = balance.amount.asset_id) THEN "AssetMismatch"
        ELSE IF o.account \notin Accounts THEN "NotFound"
        ELSE IF o.recipient \notin Accounts THEN "NotFound"
        ELSE "OK"

\* do_apply recording no more than the balance holds.
withdraw_do_apply_capped(o) ==
    LET balance == time_lock_balances[o.balance]
        review_period == balance.review_period_seconds
    IN  Result("OK",
               account_balances,
               time_lock_balances,
               [id \in DOMAIN time_lock_withdrawals \cup {next_withdrawal_id} |->
                   IF id = next_withdrawal_id
                   THEN [balance |-> o.balance,
                         withdrawal |-> IF o.amount > balance.amount.amount
                                        THEN balance.amount.amount
                                        ELSE o.amount,
                         recipient |-> o.recipient,
                         finalize_date |->
                            time_point_sec_plus(head_block_time, review_period)]
                   ELSE time_lock_withdrawals[id]])

\* do_apply taking the requested amount out of the balance at once.
withdraw_do_apply_reserving(o) ==
    LET balance == time_lock_balances[o.balance]
        review_period == balance.review_period_seconds
    IN  Result("OK",
               account_balances,
               [time_lock_balances EXCEPT ![o.balance].amount.amount = @ - o.amount],
               [id \in DOMAIN time_lock_withdrawals \cup {next_withdrawal_id} |->
                   IF id = next_withdrawal_id
                   THEN [balance |-> o.balance,
                         withdrawal |-> o.amount,
                         recipient |-> o.recipient,
                         finalize_date |->
                            time_point_sec_plus(head_block_time, review_period)]
                   ELSE time_lock_withdrawals[id]])

\* w.withdrawal is a share_type: the amount of o.withdrawal is what it holds.
time_lock_withdraw_do_apply(o) ==
    LET balance == time_lock_balances[o.balance]
        review_period == balance.review_period_seconds
    IN  Result("OK",
               account_balances,
               time_lock_balances,
               [id \in DOMAIN time_lock_withdrawals \cup {next_withdrawal_id} |->
                   IF id = next_withdrawal_id
                   THEN [balance |-> o.balance,
                         withdrawal |-> o.amount,
                         recipient |-> o.recipient,
                         finalize_date |->
                            time_point_sec_plus(head_block_time, review_period)]
                   ELSE time_lock_withdrawals[id]])

time_lock_withdraw_evaluator(o) ==
    LET err == time_lock_withdraw_do_evaluate(o) IN
    IF ~time_lock_withdraw_validate(o) THEN Rejected("InvalidArgument")
    ELSE IF err # "OK" THEN Rejected(err)
    ELSE time_lock_withdraw_do_apply(o)

(* -------------------------- abort_withdrawal -------------------------- *)

\* do_evaluate refusing an abort once the review period is over.
abort_do_evaluate_until_finalize(o) ==
    IF ~HasWithdrawal(o.withdrawal) THEN "NotFound"
    ELSE LET withdrawal == time_lock_withdrawals[o.withdrawal]
             balance == time_lock_balances[withdrawal.balance]
         IN  IF ~(o.account = balance.owner) THEN "Unauthorized"
             ELSE IF ~(head_block_time < withdrawal.finalize_date)
                 THEN "ReviewPeriodElapsed"
             ELSE "OK"

time_lock_abort_withdrawal_do_evaluate(o) ==
    IF ~HasWithdrawal(o.withdrawal) THEN "NotFound"
    ELSE LET balance ==
                time_lock_balances[time_lock_withdrawals[o.withdrawal].balance]
         IN  IF ~(o.account = balance.owner) THEN "Unauthorized" ELSE "OK"

\* do_apply removing every withdrawal of the balance, not only the one named.
abort_do_apply_whole_balance(o) ==
    Result("OK", account_balances, time_lock_balances,
           [id \in { x \in DOMAIN time_lock_withdrawals :
                        time_lock_withdrawals[x].balance #
                            time_lock_withdrawals[o.withdrawal].balance }
               |-> time_lock_withdrawals[id]])

time_lock_abort_withdrawal_do_apply(o) ==
    Result("OK", account_balances, time_lock_balances,
           Remove(time_lock_withdrawals, o.withdrawal))

time_lock_abort_withdrawal_evaluator(o) ==
    LET err == time_lock_abort_withdrawal_do_evaluate(o) IN
    IF ~time_lock_abort_withdrawal_validate(o) THEN Rejected("InvalidArgument")
    ELSE IF err # "OK" THEN Rejected(err)
    ELSE time_lock_abort_withdrawal_do_apply(o)

(* ------------------------ complete_withdrawal ------------------------- *)

\* do_evaluate without its first assertion (line 171).
complete_do_evaluate_without_review(o) ==
    IF ~HasWithdrawal(o.withdrawal) THEN "NotFound"
    ELSE LET withdrawal == time_lock_withdrawals[o.withdrawal]
             balance == time_lock_balances[withdrawal.balance]
         IN  IF ~asset_ge(balance.amount, Asset(o))
                 THEN "InsufficientFunds"
             ELSE IF ~(\/ o.account = balance.owner
                       \/ o.account = withdrawal.recipient)
                 THEN "Unauthorized"
             ELSE IF ~(o.recipient = withdrawal.recipient)
                 THEN "RecipientMismatch"
             ELSE IF ~(o.amount = withdrawal.withdrawal)
                 THEN "AmountMismatch"
             ELSE IF ~(o.asset_id = balance.amount.asset_id)
                 THEN "AssetMismatch"
             ELSE "OK"

\* do_evaluate without its second assertion (line 173).
complete_do_evaluate_without_funds(o) ==
    IF ~HasWithdrawal(o.withdrawal) THEN "NotFound"
    ELSE LET withdrawal == time_lock_withdrawals[o.withdrawal]
             balance == time_lock_balances[withdrawal.balance]
         IN  IF ~(head_block_time >= withdrawal.finalize_date)
                 THEN "ReviewPeriodNotElapsed"
             ELSE IF ~(\/ o.account = balance.owner
                       \/ o.account = withdrawal.recipient)
                 THEN "Unauthorized"
             ELSE IF ~(o.recipient = withdrawal.recipient)
                 THEN "RecipientMismatch"
             ELSE IF ~(o.amount = withdrawal.withdrawal)
                 THEN "AmountMismatch"
             ELSE IF ~(o.asset_id = balance.amount.asset_id)
                 THEN "AssetMismatch"
             ELSE "OK"

\* do_evaluate without its fourth assertion (line 180).
complete_do_evaluate_without_recipient(o) ==
    IF ~HasWithdrawal(o.withdrawal) THEN "NotFound"
    ELSE LET withdrawal == time_lock_withdrawals[o.withdrawal]
             balance == time_lock_balances[withdrawal.balance]
         IN  IF ~(head_block_time >= withdrawal.finalize_date)
                 THEN "ReviewPeriodNotElapsed"
             ELSE IF ~asset_ge(balance.amount, Asset(o))
                 THEN "InsufficientFunds"
             ELSE IF ~(\/ o.account = balance.owner
                       \/ o.account = withdrawal.recipient)
                 THEN "Unauthorized"
             ELSE IF ~(o.amount = withdrawal.withdrawal)
                 THEN "AmountMismatch"
             ELSE IF ~(o.asset_id = balance.amount.asset_id)
                 THEN "AssetMismatch"
             ELSE "OK"

\* do_evaluate whose third assertion (line 176) admits the owner alone.
complete_do_evaluate_owner_only(o) ==
    IF ~HasWithdrawal(o.withdrawal) THEN "NotFound"
    ELSE LET withdrawal == time_lock_withdrawals[o.withdrawal]
             balance == time_lock_balances[withdrawal.balance]
         IN  IF ~(head_block_time >= withdrawal.finalize_date)
                 THEN "ReviewPeriodNotElapsed"
             ELSE IF ~asset_ge(balance.amount, Asset(o))
                 THEN "InsufficientFunds"
             ELSE IF ~(o.account = balance.owner)
                 THEN "Unauthorized"
             ELSE IF ~(o.recipient = withdrawal.recipient)
                 THEN "RecipientMismatch"
             ELSE IF ~(o.amount = withdrawal.withdrawal)
                 THEN "AmountMismatch"
             ELSE IF ~(o.asset_id = balance.amount.asset_id)
                 THEN "AssetMismatch"
             ELSE "OK"

\* do_evaluate with the assertion of line 176 moved before that of line 171.
complete_do_evaluate_authorization_first(o) ==
    IF ~HasWithdrawal(o.withdrawal) THEN "NotFound"
    ELSE LET withdrawal == time_lock_withdrawals[o.withdrawal]
             balance == time_lock_balances[withdrawal.balance]
         IN  IF ~(\/ o.account = balance.owner
                  \/ o.account = withdrawal.recipient)
                 THEN "Unauthorized"
             ELSE IF ~(head_block_time >= withdrawal.finalize_date)
                 THEN "ReviewPeriodNotElapsed"
             ELSE IF ~asset_ge(balance.amount, Asset(o))
                 THEN "InsufficientFunds"
             ELSE IF ~(o.recipient = withdrawal.recipient)
                 THEN "RecipientMismatch"
             ELSE IF ~(o.amount = withdrawal.withdrawal)
                 THEN "AmountMismatch"
             ELSE IF ~(o.asset_id = balance.amount.asset_id)
                 THEN "AssetMismatch"
             ELSE "OK"

\* do_evaluate whose second assertion (line 173) wants more in the balance
\* than the amount withdrawn.
complete_do_evaluate_strictly_covered(o) ==
    IF ~HasWithdrawal(o.withdrawal) THEN "NotFound"
    ELSE LET withdrawal == time_lock_withdrawals[o.withdrawal]
             balance == time_lock_balances[withdrawal.balance]
         IN  IF ~(head_block_time >= withdrawal.finalize_date)
                 THEN "ReviewPeriodNotElapsed"
             ELSE IF ~(balance.amount.amount > o.amount)
                 THEN "InsufficientFunds"
             ELSE IF ~(\/ o.account = balance.owner
                       \/ o.account = withdrawal.recipient)
                 THEN "Unauthorized"
             ELSE IF ~(o.recipient = withdrawal.recipient)
                 THEN "RecipientMismatch"
             ELSE IF ~(o.amount = withdrawal.withdrawal)
                 THEN "AmountMismatch"
             ELSE IF ~(o.asset_id = balance.amount.asset_id)
                 THEN "AssetMismatch"
             ELSE "OK"

time_lock_complete_withdrawal_do_evaluate(o) ==
    IF ~HasWithdrawal(o.withdrawal) THEN "NotFound"
    ELSE LET withdrawal == time_lock_withdrawals[o.withdrawal]
             balance == time_lock_balances[withdrawal.balance]
         IN  IF ~(head_block_time >= withdrawal.finalize_date)
                 THEN "ReviewPeriodNotElapsed"
             ELSE IF ~asset_ge(balance.amount, Asset(o))
                 THEN "InsufficientFunds"
             ELSE IF ~(\/ o.account = balance.owner
                       \/ o.account = withdrawal.recipient)
                 THEN "Unauthorized"
             ELSE IF ~(o.recipient = withdrawal.recipient)
                 THEN "RecipientMismatch"
             ELSE IF ~(o.amount = withdrawal.withdrawal)
                 THEN "AmountMismatch"
             ELSE IF ~(o.asset_id = balance.amount.asset_id)
                 THEN "AssetMismatch"
             ELSE "OK"

\* do_apply without d.remove(withdrawal) (line 199).
complete_do_apply_without_remove(o) ==
    LET withdrawal == time_lock_withdrawals[o.withdrawal] IN
    Result("OK",
           adjust_balance(o.recipient, o.asset_id, o.amount),
           [time_lock_balances EXCEPT
               ![withdrawal.balance].amount.amount = @ - o.amount],
           time_lock_withdrawals)

\* do_apply without d.modify(balance, ...) (lines 195-197).
complete_do_apply_without_debit(o) ==
    Result("OK",
           adjust_balance(o.recipient, o.asset_id, o.amount),
           time_lock_balances,
           Remove(time_lock_withdrawals, o.withdrawal))

\* The three statements of do_apply (which ends without a return statement).
time_lock_complete_withdrawal_do_apply(o) ==
    LET withdrawal == time_lock_withdrawals[o.withdrawal] IN
    Result("OK",
           adjust_balance(o.recipient, o.asset_id, o.amount),
           [time_lock_balances EXCEPT
               ![withdrawal.balance].amount.amount = @ - o.amount],
           Remove(time_lock_withdrawals, o.withdrawal))

time_lock_complete_withdrawal_evaluator(o) ==
    LET err == time_lock_complete_withdrawal_do_evaluate(o) IN
    IF ~time_lock_complete_withdrawal_validate(o) THEN Rejected("InvalidArgument")
    ELSE IF err # "OK" THEN Rejected(err)
    ELSE time_lock_complete_withdrawal_do_apply(o)

(* ----------------------------- dispatch ------------------------------- *)

AllOps == CreateOps \cup DepositOps \cup WithdrawOps \cup AbortOps \cup CompleteOps

\* The validate() of operation o, and the evaluator registered for it.
Validate(o) ==
    CASE o.kind = "create" -> time_lock_create_validate(o)
      [] o.kind = "deposit" -> time_lock_deposit_validate(o)
      [] o.kind = "withdraw" -> time_lock_withdraw_validate(o)
      [] o.kind = "abort" -> time_lock_abort_withdrawal_validate(o)
      [] o.kind = "complete" -> time_lock_complete_withdrawal_validate(o)

Process(o) ==
    CASE o.kind = "create" -> time_lock_create_evaluator(o)
      [] o.kind = "deposit" -> time_lock_deposit_evaluator(o)
      [] o.kind = "withdraw" -> time_lock_withdraw_evaluator(o)
      [] o.kind = "abort" -> time_lock_abort_withdrawal_evaluator(o)
      [] o.kind = "complete" -> time_lock_complete_withdrawal_evaluator(o)

(* ------------------------------ actions ------------------------------- *)

\* The operations applied to withdrawal id so far, with o added.
Settle(o) ==
    [id \in DOMAIN settled \cup {o.withdrawal} |->
        IF id = o.withdrawal
        THEN (IF id \in DOMAIN settled THEN settled[id] ELSE <<>>) \o <<o.kind>>
        ELSE settled[id]]

\* The stores after operation o with result r; an applied operation is
\* remembered in last, and in settled when it ends a withdrawal.
Commit(o, r) ==
    /\ account_balances' = r.account_balances
    /\ time_lock_balances' = r.time_lock_balances
    /\ time_lock_withdrawals' = r.time_lock_withdrawals
    /\ last' = IF r.err = "OK" THEN o ELSE last
    /\ settled' = IF r.err = "OK" /\ o.kind \in {"abort", "complete"}
                  THEN Settle(o) ELSE settled

Init ==
    /\ account_balances = GenesisBalances
    /\ time_lock_balances = <<>>
    /\ time_lock_withdrawals = <<>>
    /\ next_withdrawal_id = 1
    /\ head_block_time = 0
    /\ last = Blank("genesis")
    /\ settled = <<>>

Create ==
    \E o \in CreateOps :
        /\ Len(time_lock_balances) + next_withdrawal_id - 1 < MaxObjects
        /\ Commit(o, time_lock_create_evaluator(o))
        /\ UNCHANGED <<next_withdrawal_id, head_block_time>>

Deposit ==
    \E o \in DepositOps :
        /\ Commit(o, time_lock_deposit_evaluator(o))
        /\ UNCHANGED <<next_withdrawal_id, head_block_time>>

RequestWithdrawal ==
    \E o \in WithdrawOps :
        /\ Len(time_lock_balances) + next_withdrawal_id - 1 < MaxObjects
        /\ Commit(o, time_lock_withdraw_evaluator(o))
        /\ next_withdrawal_id' =
              IF time_lock_withdraw_evaluator(o).err = "OK"
                  THEN next_withdrawal_id + 1
              ELSE next_withdrawal_id
        /\ UNCHANGED head_block_time

AbortWithdrawal ==
    \E o \in AbortOps :
        /\ Commit(o, time_lock_abort_withdrawal_evaluator(o))
        /\ UNCHANGED <<next_withdrawal_id, head_block_time>>

CompleteWithdrawal ==
    \E o \in CompleteOps :
        /\ Commit(o, time_lock_complete_withdrawal_evaluator(o))
        /\ UNCHANGED <<next_withdrawal_id, head_block_time>>

\* A new head block: time passes.
NewBlock ==
    /\ head_block_time < MaxTime
    /\ head_block_time' = head_block_time + 1
    /\ last' = Blank("block")
    /\ UNCHANGED <<account_balances, time_lock_balances,
                   time_lock_withdrawals, next_withdrawal_id, settled>>

Next ==
    \/ Create
    \/ Deposit
    \/ RequestWithdrawal
    \/ AbortWithdrawal
    \/ CompleteWithdrawal
    \/ NewBlock

Spec == Init /\ [][Next]_vars

\* The same machine with creates of a long review period among its steps.
CreateLong ==
    \E o \in LongCreateOps :
        /\ Len(time_lock_balances) + next_withdrawal_id - 1 < MaxObjects
        /\ Commit(o, time_lock_create_evaluator(o))
        /\ UNCHANGED <<next_withdrawal_id, head_block_time>>

NextLong ==
    \/ Next
    \/ CreateLong

SpecLong == Init /\ [][NextLong]_vars

(* ------------------------------ claims -------------------------------- *)

\* The stores are as they were before the operation.
Untouched(r) ==
    /\ r.account_balances = account_balances
    /\ r.time_lock_balances = time_lock_balances
    /\ r.time_lock_withdrawals = time_lock_withdrawals

\* The withdrawal a complete or abort operation names, and its balance.
WithdrawalOf(o) == time_lock_withdrawals[o.withdrawal]
BalanceOf(o) == time_lock_balances[WithdrawalOf(o).balance]

\* C1: a complete_withdrawal on a pending withdrawal while head_block_time
\* is before its finalize_date is rejected, whatever account, recipient and
\* amount it states, with ReviewPeriodNotElapsed when validate() accepts the
\* operation (InvalidArgument otherwise), and changes nothing; so a
\* complete_withdrawal that is applied is applied at or after finalize_date.
C1_ReviewPeriodEnforced ==
    \A o \in CompleteOps :
        HasWithdrawal(o.withdrawal) =>
            LET r == time_lock_complete_withdrawal_evaluator(o) IN
            /\ head_block_time < WithdrawalOf(o).finalize_date =>
                  /\ r.err = IF time_lock_complete_withdrawal_validate(o)
                             THEN "ReviewPeriodNotElapsed"
                             ELSE "InvalidArgument"
                  /\ Untouched(r)
            /\ r.err = "OK" => head_block_time >= WithdrawalOf(o).finalize_date

\* A withdrawal was completed, and a completion of another one, stating a
\* wrong recipient and a wrong amount, is rejected for being early.
C1_Witness ==
    /\ last.kind = "complete"
    /\ \E o \in CompleteOps :
          /\ HasWithdrawal(o.withdrawal)
          /\ head_block_time < WithdrawalOf(o).finalize_date
          /\ o.recipient # WithdrawalOf(o).recipient
          /\ o.amount # WithdrawalOf(o).withdrawal
          /\ o.account \notin {BalanceOf(o).owner, WithdrawalOf(o).recipient}
          /\ time_lock_complete_withdrawal_evaluator(o).err =
                "ReviewPeriodNotElapsed"

\* C2: the amount of every time_lock_balance_object is >= 0 in every
\* reachable state.
C2_BalanceNeverNegative ==
    \A id \in 1..Len(time_lock_balances) :
        time_lock_balances[id].amount.amount >= 0

\* A completion has emptied a balance that a pending withdrawal still draws
\* on, and the completion of that withdrawal is refused.
C2_Witness ==
    /\ last.kind = "complete"
    /\ \E o \in CompleteOps :
          /\ HasWithdrawal(o.withdrawal)
          /\ BalanceOf(o).amount.amount = 0
          /\ o.amount = WithdrawalOf(o).withdrawal
          /\ time_lock_complete_withdrawal_evaluator(o).err = "InsufficientFunds"

\* C3: abort and complete end a withdrawal: an id either of them was applied
\* to had exactly one of them applied (so it paid out at most once, and not
\* at all when it was aborted), is absent from the withdrawal index, and
\* every later abort or complete naming it is rejected with NotFound
\* (InvalidArgument when validate() refuses the operation) and changes
\* nothing; an applied abort or complete leaves its id absent.
C3_SettledIsTerminal ==
    /\ \A id \in DOMAIN settled :
          /\ Len(settled[id]) = 1
          /\ ~HasWithdrawal(id)
    /\ \A o \in AbortOps \cup CompleteOps :
          /\ o.withdrawal \in DOMAIN settled =>
                /\ Process(o).err =
                      IF Validate(o) THEN "NotFound" ELSE "InvalidArgument"
                /\ Untouched(Process(o))
          /\ Process(o).err = "OK" =>
                o.withdrawal \notin DOMAIN Process(o).time_lock_withdrawals

\* One withdrawal was aborted and another completed, and a well-formed
\* completion of the aborted one is rejected with NotFound.
C3_Witness ==
    /\ \E id \in DOMAIN settled : settled[id] = <<"abort">>
    /\ \E id \in DOMAIN settled : settled[id] = <<"complete">>
    /\ \E o \in CompleteOps :
          /\ o.withdrawal \in DOMAIN settled
          /\ settled[o.withdrawal] = <<"abort">>
          /\ Validate(o)
          /\ Process(o).err = "NotFound"

\* C4: an operation that is rejected, with whatever error, leaves the account
\* balances, the balance index and the withdrawal index as they were.
C4_AllOrNothing ==
    \A o \in AllOps :
        LET r == Process(o) IN r.err # "OK" => Untouched(r)

\* With a balance and a pending withdrawal in the database, an operation of
\* each kind is rejected by its evaluator.
C4_Witness ==
    /\ time_lock_balances # <<>>
    /\ DOMAIN time_lock_withdrawals # {}
    /\ \E o \in CreateOps : Process(o).err = "InsufficientFunds"
    /\ \E o \in DepositOps : Process(o).err = "InsufficientFunds"
    /\ \E o \in WithdrawOps : Process(o).err = "AssetMismatch"
    /\ \E o \in AbortOps : Process(o).err = "Unauthorized"
    /\ \E o \in CompleteOps : Process(o).err = "ReviewPeriodNotElapsed"

\* validate() accepts o and o passes the first three assertions of
\* complete_withdrawal's do_evaluate.
PassesEarlierChecks(o) ==
    /\ time_lock_complete_withdrawal_validate(o)
    /\ head_block_time >= WithdrawalOf(o).finalize_date
    /\ BalanceOf(o).amount.amount >= o.amount
    /\ o.account \in {BalanceOf(o).owner, WithdrawalOf(o).recipient}

\* C5: an applied complete_withdrawal takes exactly the recorded amount from
\* the withdrawal's balance, adds exactly that amount of the balance's asset
\* to the recorded recipient's account balance and removes the withdrawal;
\* one stating another recipient or another amount is never applied, and is
\* rejected with RecipientMismatch, respectively AmountMismatch, when it
\* passes the assertions that come before.
C5_CompletionPaysRecorded ==
    \A o \in CompleteOps :
        HasWithdrawal(o.withdrawal) =>
            LET w == WithdrawalOf(o)
                b == BalanceOf(o)
                r == time_lock_complete_withdrawal_evaluator(o)
            IN  /\ r.err = "OK" =>
                      /\ r.time_lock_balances =
                            [time_lock_balances EXCEPT
                                ![w.balance].amount.amount = @ - w.withdrawal]
                      /\ r.account_balances =
                            [account_balances EXCEPT
                                ![w.recipient][b.amount.asset_id] =
                                    @ + w.withdrawal]
                      /\ r.time_lock_withdrawals =
                            Remove(time_lock_withdrawals, o.withdrawal)
                /\ o.recipient # w.recipient =>
                      /\ r.err # "OK"
                      /\ PassesEarlierChecks(o) => r.err = "RecipientMismatch"
                /\ o.amount # w.withdrawal =>
                      /\ r.err # "OK"
                      /\ PassesEarlierChecks(o) /\ o.recipient = w.recipient =>
                            r.err = "AmountMismatch"

\* A withdrawal was completed, and for another one a completion stating a
\* wrong recipient and one stating a wrong amount are rejected as such.
C5_Witness ==
    /\ last.kind = "complete"
    /\ account_balances[last.recipient][last.asset_id] >= last.amount
    /\ \E o \in CompleteOps :
          /\ HasWithdrawal(o.withdrawal)
          /\ o.recipient # WithdrawalOf(o).recipient
          /\ time_lock_complete_withdrawal_evaluator(o).err = "RecipientMismatch"
    /\ \E o \in CompleteOps :
          /\ HasWithdrawal(o.withdrawal)
          /\ o.amount # WithdrawalOf(o).withdrawal
          /\ time_lock_complete_withdrawal_evaluator(o).err = "AmountMismatch"

\* C6: a complete_withdrawal that validate() accepts, on a pending withdrawal
\* whose review period is over and whose balance covers it, restating the
\* recorded recipient, amount and asset, is applied when the acting account
\* is the balance's owner or the recorded recipient, and is rejected with
\* Unauthorized, changing nothing, for any other acting account.
C6_OwnerOrRecipientCompletes ==
    \A o \in CompleteOps :
        ( /\ HasWithdrawal(o.withdrawal)
          /\ time_lock_complete_withdrawal_validate(o)
          /\ head_block_time >= WithdrawalOf(o).finalize_date
          /\ BalanceOf(o).amount.amount >= o.amount
          /\ o.recipient = WithdrawalOf(o).recipient
          /\ o.amount = WithdrawalOf(o).withdrawal
          /\ o.asset_id = BalanceOf(o).amount.asset_id )
        => LET r == time_lock_complete_withdrawal_evaluator(o) IN
           IF o.account \in {BalanceOf(o).owner, WithdrawalOf(o).recipient}
           THEN r.err = "OK"
           ELSE r.err = "Unauthorized" /\ Untouched(r)

\* The recipient, who is not the owner, completed a withdrawal; another one
\* can be completed by the owner and by its recipient, not by a third account.
C6_Witness ==
    /\ last.kind = "complete"
    /\ last.account = last.recipient
    /\ \A id \in 1..Len(time_lock_balances) :
          time_lock_balances[id].owner # last.account
    /\ \E o \in CompleteOps :
          /\ HasWithdrawal(o.withdrawal)
          /\ o.account = BalanceOf(o).owner
          /\ o.account # WithdrawalOf(o).recipient
          /\ time_lock_complete_withdrawal_evaluator(o).err = "OK"
    /\ \E o \in CompleteOps :
          /\ HasWithdrawal(o.withdrawal)
          /\ o.account = WithdrawalOf(o).recipient
          /\ o.account # BalanceOf(o).owner
          /\ time_lock_complete_withdrawal_evaluator(o).err = "OK"
    /\ \E o \in CompleteOps :
          /\ HasWithdrawal(o.withdrawal)
          /\ time_lock_complete_withdrawal_evaluator(o).err = "Unauthorized"

\* The order in which complete_withdrawal reports its failures.
CompleteErrorOrder ==
    <<"ReviewPeriodNotElapsed", "InsufficientFunds", "Unauthorized",
      "RecipientMismatch", "AmountMismatch", "AssetMismatch">>

\* The conditions operation o fails on its (pending) withdrawal.
CompleteFailures(o) ==
    LET w == WithdrawalOf(o)
        b == BalanceOf(o)
    IN  {e \in {"ReviewPeriodNotElapsed"} : head_block_time < w.finalize_date}
        \cup {e \in {"InsufficientFunds"} : b.amount.amount < o.amount}
        \cup {e \in {"Unauthorized"} : o.account \notin {b.owner, w.recipient}}
        \cup {e \in {"RecipientMismatch"} : o.recipient # w.recipient}
        \cup {e \in {"AmountMismatch"} : o.amount # w.withdrawal}
        \cup {e \in {"AssetMismatch"} : o.asset_id # b.amount.asset_id}

\* C7: a complete_withdrawal that validate() accepts, on a pending
\* withdrawal, is applied when it fails no condition, and otherwise is
\* rejected with the error of the first condition it fails in the order
\* ReviewPeriodNotElapsed, InsufficientFunds, Unauthorized,
\* RecipientMismatch, AmountMismatch, AssetMismatch.
C7_EarliestFailureReported ==
    \A o \in CompleteOps :
        (HasWithdrawal(o.withdrawal) /\ time_lock_complete_withdrawal_validate(o))
        => LET failed == CompleteFailures(o)
               first == CHOOSE i \in 1..Len(CompleteErrorOrder) :
                           /\ CompleteErrorOrder[i] \in failed
                           /\ \A j \in 1..(i - 1) :
                                 CompleteErrorOrder[j] \notin failed
           IN  time_lock_complete_withdrawal_evaluator(o).err =
                  IF failed = {} THEN "OK" ELSE CompleteErrorOrder[first]

\* An unauthorized account completing too early is told
\* ReviewPeriodNotElapsed; a completion wrong in its asset alone is told
\* AssetMismatch; one failing the last five conditions is told
\* InsufficientFunds.
C7_Witness ==
    /\ \E o \in CompleteOps :
          /\ HasWithdrawal(o.withdrawal)
          /\ {"ReviewPeriodNotElapsed", "Unauthorized"} \subseteq CompleteFailures(o)
          /\ time_lock_complete_withdrawal_evaluator(o).err =
                "ReviewPeriodNotElapsed"
    /\ \E o \in CompleteOps :
          /\ HasWithdrawal(o.withdrawal)
          /\ CompleteFailures(o) = {"AssetMismatch"}
          /\ time_lock_complete_withdrawal_evaluator(o).err = "AssetMismatch"
    /\ \E o \in CompleteOps :
          /\ HasWithdrawal(o.withdrawal)
          /\ CompleteFailures(o) =
                {"InsufficientFunds", "Unauthorized", "RecipientMismatch",
                 "AmountMismatch", "AssetMismatch"}
          /\ time_lock_complete_withdrawal_evaluator(o).err = "InsufficientFunds"

\* The step applied a complete_withdrawal to withdrawal id.
Completes(id) ==
    /\ HasWithdrawal(id)
    /\ ~HasWithdrawal(id)'
    /\ last'.kind = "complete"
    /\ last'.withdrawal = id

\* C8: when two withdrawals are pending on one balance and their amounts sum
\* to more than the balance holds, applying the completion of one leaves the
\* balance at an amount >= 0 that no longer covers the other: every
\* completion of the other is then rejected, the one restating its amount
\* with InsufficientFunds once its review period is over; and the amount of
\* a balance grows by deposit alone, so this lasts until a deposit.
C8_FirstCompletedWins ==
    [][ /\ \A id1, id2 \in DOMAIN time_lock_withdrawals :
              ( /\ id1 # id2
                /\ time_lock_withdrawals[id1].balance =
                      time_lock_withdrawals[id2].balance
                /\ time_lock_withdrawals[id1].withdrawal
                      + time_lock_withdrawals[id2].withdrawal
                   > time_lock_balances[time_lock_withdrawals[id1].balance]
                        .amount.amount
                /\ Completes(id1) )
              => LET w2 == time_lock_withdrawals[id2]
                     left == time_lock_balances'[w2.balance].amount.amount
                 IN  /\ left >= 0
                     /\ left < w2.withdrawal
                     /\ HasWithdrawal(id2)'
                     /\ \A o \in CompleteOps :
                           o.withdrawal = id2 =>
                              /\ time_lock_complete_withdrawal_evaluator(o)'.err
                                    # "OK"
                              /\ ( /\ time_lock_complete_withdrawal_validate(o)
                                   /\ o.amount = w2.withdrawal
                                   /\ head_block_time' >= w2.finalize_date )
                                 => time_lock_complete_withdrawal_evaluator(o)'.err
                                       = "InsufficientFunds"
        /\ \A id \in 1..Len(time_lock_balances) :
              time_lock_balances'[id].amount.amount
                 > time_lock_balances[id].amount.amount
              => last'.kind = "deposit" /\ last'.balance = id
      ]_vars

\* A completion was applied to a balance that covered it, and what is left
\* does not cover another withdrawal whose review period is over: its
\* completion by the owner, restating it exactly, gets InsufficientFunds.
C8_Witness ==
    /\ last.kind = "complete"
    /\ \E o \in CompleteOps :
          /\ HasWithdrawal(o.withdrawal)
          /\ CompleteFailures(o) = {"InsufficientFunds"}
          /\ BalanceOf(o).amount.amount + last.amount >= o.amount
          /\ time_lock_complete_withdrawal_evaluator(o).err = "InsufficientFunds"

\* C9: a withdraw that validate() accepts, by the balance's owner, in the
\* balance's asset and to a registered recipient, is applied whatever its
\* amount is and whatever is pending already: it adds one withdrawal, of that
\* amount, to that recipient, on that balance.
C9_RequestNotComparedWithBalance ==
    \A o \in WithdrawOps :
        ( /\ time_lock_withdraw_validate(o)
          /\ HasBalance(o.balance)
          /\ time_lock_balances[o.balance].owner = o.account
          /\ time_lock_balances[o.balance].amount.asset_id = o.asset_id
          /\ o.recipient \in Accounts )
        => LET r == time_lock_withdraw_evaluator(o) IN
           /\ r.err = "OK"
           /\ DOMAIN r.time_lock_withdrawals =
                 DOMAIN time_lock_withdrawals \cup {next_withdrawal_id}
           /\ next_withdrawal_id \notin DOMAIN time_lock_withdrawals
           /\ r.time_lock_withdrawals[next_withdrawal_id].withdrawal = o.amount
           /\ r.time_lock_withdrawals[next_withdrawal_id].recipient = o.recipient
           /\ r.time_lock_withdrawals[next_withdrawal_id].balance = o.balance

\* The withdrawal requested last is for more than its balance holds, and so
\* is one that was pending on that balance before it.
C9_Witness ==
    /\ last.kind = "withdraw"
    /\ HasWithdrawal(next_withdrawal_id - 1)
    /\ time_lock_withdrawals[next_withdrawal_id - 1].withdrawal = last.amount
    /\ last.amount > time_lock_balances[last.balance].amount.amount
    /\ \E id \in DOMAIN time_lock_withdrawals :
          /\ id < next_withdrawal_id - 1
          /\ time_lock_withdrawals[id].balance = last.balance
          /\ time_lock_withdrawals[id].withdrawal
                > time_lock_balances[last.balance].amount.amount

\* C10, as claimed: the withdrawal a withdraw operation has just created is
\* for no more than its balance holds (withdraw leaves the balance as it
\* was, so this is the balance at request time).
C10_QuantityWithinBalance ==
    last.kind = "withdraw" =>
        time_lock_withdrawals[next_withdrawal_id - 1].withdrawal
            <= time_lock_balances[last.balance].amount.amount

\* C10, amended: the withdrawal a withdraw operation creates records the
\* amount the operation states, which is positive and is not compared with
\* the balance; every pending withdrawal has a positive amount, and the
\* amount is compared with the balance when it is completed: an applied
\* complete_withdrawal finds the recorded amount within the balance.
C10_QuantityAsRequested ==
    /\ \A o \in WithdrawOps :
          time_lock_withdraw_evaluator(o).err = "OK" =>
              /\ o.amount > 0
              /\ time_lock_withdraw_evaluator(o)
                    .time_lock_withdrawals[next_withdrawal_id].withdrawal
                 = o.amount
    /\ \A id \in DOMAIN time_lock_withdrawals :
          time_lock_withdrawals[id].withdrawal > 0
    /\ \A o \in CompleteOps :
          time_lock_complete_withdrawal_evaluator(o).err = "OK" =>
              WithdrawalOf(o).withdrawal <= BalanceOf(o).amount.amount

\* A withdrawal was just requested for more than its balance holds.
C10_Witness ==
    /\ last.kind = "withdraw"
    /\ HasWithdrawal(next_withdrawal_id - 1)
    /\ time_lock_withdrawals[next_withdrawal_id - 1].withdrawal
          > time_lock_balances[last.balance].amount.amount

\* The step applied a withdraw.
Requests ==
    /\ last'.kind = "withdraw"
    /\ next_withdrawal_id' = next_withdrawal_id + 1

\* C11: a step that applies a withdraw leaves every account balance and every
\* time_lock_balance_object as it was, leaves the pending withdrawals as they
\* were and adds one; nothing is set aside for it: every deposit and every
\* complete_withdrawal that would have been applied before the step would
\* still be applied after it.
C11_RequestMovesNoFunds ==
    [][ Requests =>
          /\ account_balances' = account_balances
          /\ time_lock_balances' = time_lock_balances
          /\ next_withdrawal_id \notin DOMAIN time_lock_withdrawals
          /\ DOMAIN time_lock_withdrawals' =
                DOMAIN time_lock_withdrawals \cup {next_withdrawal_id}
          /\ \A id \in DOMAIN time_lock_withdrawals :
                time_lock_withdrawals'[id] = time_lock_withdrawals[id]
          /\ \A o \in DepositOps \cup CompleteOps :
                Process(o).err = "OK" => Process(o)'.err = "OK"
      ]_vars

\* A withdrawal was just requested on a balance on which another one is
\* pending; the other one can be completed for all the balance holds, and
\* the owner can deposit into the balance.
C11_Witness ==
    /\ last.kind = "withdraw"
    /\ HasWithdrawal(next_withdrawal_id - 1)
    /\ \E o \in CompleteOps :
          /\ HasWithdrawal(o.withdrawal)
          /\ o.withdrawal # next_withdrawal_id - 1
          /\ WithdrawalOf(o).balance = last.balance
          /\ o.amount = BalanceOf(o).amount.amount
          /\ Process(o).err = "OK"
    /\ \E o \in DepositOps :
          o.balance = last.balance /\ Process(o).err = "OK"

\* C12: the withdrawal a step that applies a withdraw creates has
\* finalize_date = head_block_time + the review period of its balance, and
\* no step changes the balance, withdrawal (amount), recipient or
\* finalize_date of a withdrawal that is pending before and after it.
C12_FinalizeDateIsRequestPlusPeriod ==
    [][ /\ Requests =>
              time_lock_withdrawals'[next_withdrawal_id].finalize_date =
                  head_block_time
                  + time_lock_balances[last'.balance].review_period_seconds
        /\ \A id \in DOMAIN time_lock_withdrawals :
              HasWithdrawal(id)' =>
                  time_lock_withdrawals'[id] = time_lock_withdrawals[id]
      ]_vars

\* C13: an abort_withdrawal that validate() accepts is applied exactly when
\* its withdrawal is pending and its owner is the owner of the withdrawal's
\* balance, whatever head_block_time and finalize_date are; applied, it
\* removes the withdrawal and leaves every balance and account balance as it
\* was; stated by any other account, the recipient included, it is rejected
\* with Unauthorized and changes nothing.
C13_AbortByOwnerAtAnyTime ==
    \A o \in AbortOps :
        LET r == time_lock_abort_withdrawal_evaluator(o) IN
        /\ r.err = "OK" <=>
              /\ time_lock_abort_withdrawal_validate(o)
              /\ HasWithdrawal(o.withdrawal)
              /\ o.account = BalanceOf(o).owner
        /\ r.err = "OK" =>
              /\ r.time_lock_withdrawals =
                    Remove(time_lock_withdrawals, o.withdrawal)
              /\ r.time_lock_balances = time_lock_balances
              /\ r.account_balances = account_balances
        /\ ( /\ time_lock_abort_withdrawal_validate(o)
             /\ HasWithdrawal(o.withdrawal)
             /\ o.account # BalanceOf(o).owner )
           => r.err = "Unauthorized" /\ Untouched(r)

\* One withdrawal is pending before its finalize_date and another at or
\* after its own: the owner can abort either, the recipient neither.
C13_Witness ==
    \E early, late \in AbortOps :
        /\ HasWithdrawal(early.withdrawal)
        /\ HasWithdrawal(late.withdrawal)
        /\ head_block_time < WithdrawalOf(early).finalize_date
        /\ head_block_time >= WithdrawalOf(late).finalize_date
        /\ early.account = BalanceOf(early).owner
        /\ late.account = BalanceOf(late).owner
        /\ time_lock_abort_withdrawal_evaluator(early).err = "OK"
        /\ time_lock_abort_withdrawal_evaluator(late).err = "OK"
        /\ \A o \in AbortOps :
              ( /\ o.withdrawal \in {early.withdrawal, late.withdrawal}
                /\ o.account = WithdrawalOf(o).recipient
                /\ time_lock_abort_withdrawal_validate(o) )
              => time_lock_abort_withdrawal_evaluator(o).err = "Unauthorized"
        /\ \E o \in AbortOps :
              /\ o.withdrawal = late.withdrawal
              /\ o.account = WithdrawalOf(o).recipient

\* C14: a create that validate() accepts, by a registered owner and in a
\* registered asset, with initial deposit q >= 0: when the owner's account
\* balance of that asset is >= q it is applied, a time_lock_balance_object
\* with an id no balance has, that owner, amount q of that asset and the
\* stated review period is added, the balances there were stay, and the
\* owner's account balance of that asset goes down by exactly q (no other
\* account balance changes); when it is < q the create is rejected with
\* InsufficientFunds and nothing changes.
C14_CreateDebitsOwner ==
    \A o \in CreateOps :
        ( /\ time_lock_create_validate(o)
          /\ o.account \in Accounts
          /\ o.asset_id \in Assets )
        => LET r == time_lock_create_evaluator(o)
               id == Len(time_lock_balances) + 1
           IN  IF get_balance(o.account, o.asset_id) >= o.amount
               THEN /\ r.err = "OK"
                    /\ ~HasBalance(id)
                    /\ r.time_lock_balances =
                          Append(time_lock_balances,
                                 [owner |-> o.account,
                                  amount |-> [amount |-> o.amount,
                                              asset_id |-> o.asset_id],
                                  review_period_seconds |->
                                      o.review_period_seconds])
                    /\ r.account_balances =
                          [account_balances EXCEPT
                              ![o.account][o.asset_id] = @ - o.amount]
                    /\ r.account_balances[o.account][o.asset_id] >= 0
                    /\ r.time_lock_withdrawals = time_lock_withdrawals
               ELSE /\ r.err = "InsufficientFunds"
                    /\ Untouched(r)

\* A create with a positive initial deposit was applied; of the creates the
\* owner may state next, one is covered by what it has left and one is not.
C14_Witness ==
    /\ last.kind = "create"
    /\ last.amount > 0
    /\ time_lock_balances[Len(time_lock_balances)].amount.amount = last.amount
    /\ \E o \in CreateOps :
          /\ o.amount > 0
          /\ time_lock_create_evaluator(o).err = "OK"
    /\ \E o \in CreateOps :
          time_lock_create_evaluator(o).err = "InsufficientFunds"

\* The step applied a deposit to balance id.
Deposits(id) ==
    /\ last'.kind = "deposit"
    /\ last'.balance = id
    /\ account_balances' # account_balances

\* C15: every step leaves the asset of every balance as it was; a step that
\* applies a deposit to a balance adds exactly the deposit's amount to it and
\* takes exactly that amount of that asset from the owner's account balance,
\* changing no other account balance; and a step that applies neither a
\* deposit to the balance nor a complete_withdrawal leaves its amount as it
\* was (a rejected deposit is such a step). So over any run of steps
\* without a complete_withdrawal the balance's amount grows by the sum of
\* the deposits applied to it.
C15_DepositsAddUp ==
    [][ \A id \in 1..Len(time_lock_balances) :
          LET before == time_lock_balances[id].amount
              after == time_lock_balances'[id].amount
              owner == time_lock_balances[id].owner
          IN  /\ after.asset_id = before.asset_id
              /\ IF Deposits(id)
                 THEN /\ after.amount = before.amount + last'.amount
                      /\ account_balances' =
                            [account_balances EXCEPT
                                ![owner][before.asset_id] = @ - last'.amount]
                 ELSE last'.kind # "complete" => after.amount = before.amount
      ]_vars

\* A deposit was applied to a balance that held funds already, no
\* complete_withdrawal was applied so far, and a further deposit by the owner
\* is rejected for lack of funds.
C15_Witness ==
    /\ last.kind = "deposit"
    /\ time_lock_balances[last.balance].amount.amount > last.amount
    /\ \A id \in DOMAIN settled : settled[id] # <<"complete">>
    /\ \E o \in DepositOps :
          /\ o.balance = last.balance
          /\ Process(o).err = "InsufficientFunds"

\* C16: a deposit that validate() accepts, on an existing balance, is
\* rejected with Unauthorized when its owner is not the balance's owner,
\* otherwise with AssetMismatch when its asset is not the balance's,
\* otherwise with InsufficientFunds when the owner's account balance of the
\* asset is below the deposit, and is applied otherwise; rejected, it leaves
\* the balance (and everything else) as it was.
C16_DepositChecksInOrder ==
    \A o \in DepositOps :
        (time_lock_deposit_validate(o) /\ HasBalance(o.balance))
        => LET balance == time_lock_balances[o.balance]
               r == time_lock_deposit_evaluator(o)
           IN  /\ r.err =
                     IF o.account # balance.owner THEN "Unauthorized"
                     ELSE IF o.asset_id # balance.amount.asset_id
                         THEN "AssetMismatch"
                     ELSE IF account_balances[o.account][o.asset_id] < o.amount
                         THEN "InsufficientFunds"
                     ELSE "OK"
               /\ r.err # "OK" =>
                     /\ r.time_lock_balances[o.balance] = balance
                     /\ Untouched(r)

\* A deposit was applied, and on its balance a deposit by another account in
\* another asset is told Unauthorized, one by the owner in another asset
\* that the owner does not hold is told AssetMismatch, and one by the owner
\* in the balance's asset, above what the owner holds, InsufficientFunds.
C16_Witness ==
    /\ last.kind = "deposit"
    /\ \E o \in DepositOps :
          /\ o.balance = last.balance
          /\ o.account # time_lock_balances[o.balance].owner
          /\ o.asset_id # time_lock_balances[o.balance].amount.asset_id
          /\ Process(o).err = "Unauthorized"
    /\ \E o \in DepositOps :
          /\ o.balance = last.balance
          /\ account_balances[o.account][o.asset_id] < o.amount
          /\ Process(o).err = "AssetMismatch"
    /\ \E o \in DepositOps :
          /\ o.balance = last.balance
          /\ Process(o).err = "InsufficientFunds"

\* C17: a withdraw that is applied at head_block_time t on a balance with
\* review period p sets a finalize_date <= t + p, so head_block_time is at or
\* after it once it has advanced by p; and a complete_withdrawal that
\* validate() accepts, stated by the owner or the recipient at or after
\* finalize_date, on a withdrawal of q > 0 to recipient R from a balance
\* holding exactly q, restating R, q and the asset, is applied: it leaves
\* the balance in the index with amount 0, removes the withdrawal, and adds
\* exactly q to R's account balance of the asset.
C17_RoundTrip ==
    /\ \A o \in WithdrawOps :
          LET r == time_lock_withdraw_evaluator(o) IN
          r.err = "OK" =>
              r.time_lock_withdrawals[next_withdrawal_id].finalize_date
                 <= head_block_time
                    + time_lock_balances[o.balance].review_period_seconds
    /\ \A o \in CompleteOps :
          ( /\ HasWithdrawal(o.withdrawal)
            /\ time_lock_complete_withdrawal_validate(o)
            /\ WithdrawalOf(o).withdrawal = BalanceOf(o).amount.amount
            /\ o.amount = WithdrawalOf(o).withdrawal
            /\ o.recipient = WithdrawalOf(o).recipient
            /\ o.asset_id = BalanceOf(o).amount.asset_id
            /\ o.account \in {BalanceOf(o).owner, WithdrawalOf(o).recipient}
            /\ head_block_time >= WithdrawalOf(o).finalize_date )
          => LET r == time_lock_complete_withdrawal_evaluator(o)
                 w == WithdrawalOf(o)
             IN  /\ r.err = "OK"
                 /\ Len(r.time_lock_balances) = Len(time_lock_balances)
                 /\ r.time_lock_balances[w.balance] =
                       [BalanceOf(o) EXCEPT !.amount.amount = 0]
                 /\ o.withdrawal \notin DOMAIN r.time_lock_withdrawals
                 /\ r.account_balances[w.recipient][o.asset_id] =
                       account_balances[w.recipient][o.asset_id] + o.amount

\* After one create with review period 1, one withdraw and one
\* complete_withdrawal at a later time: the balance is there and empty, no
\* withdrawal is pending, and what the owner paid in is with the recipient.
C17_Witness ==
    /\ last.kind = "complete"
    /\ head_block_time > 0
    /\ Len(time_lock_balances) = 1
    /\ time_lock_balances[1].amount.amount = 0
    /\ time_lock_balances[1].review_period_seconds = 1
    /\ DOMAIN time_lock_withdrawals = {}
    /\ next_withdrawal_id = 2
    /\ last.amount > 0
    /\ account_balances[last.recipient][last.asset_id] = last.amount
    /\ account_balances[time_lock_balances[1].owner][last.asset_id] =
          GenesisBalances[time_lock_balances[1].owner][last.asset_id]
             - last.amount

\* C18: no step removes a time_lock_balance_object or changes the owner, the
\* asset or the review period of the balance an id names; a balance's amount
\* goes up only in a step that applies a deposit to it and down only in a
\* step that applies a complete_withdrawal of a withdrawal on it; and a
\* balance holding 0 is in the index and takes what validate() accepts from
\* its owner: a deposit in its asset that the owner's account balance
\* covers, and a withdraw in its asset to a registered recipient.
C18_BalancePersists ==
    /\ [][ /\ Len(time_lock_balances') >= Len(time_lock_balances)
           /\ \A id \in 1..Len(time_lock_balances) :
                 LET before == time_lock_balances[id]
                     after == time_lock_balances'[id]
                 IN  /\ after.owner = before.owner
                     /\ after.amount.asset_id = before.amount.asset_id
                     /\ after.review_period_seconds =
                           before.review_period_seconds
                     /\ after.amount.amount > before.amount.amount =>
                           Deposits(id)
                     /\ after.amount.amount < before.amount.amount =>
                           /\ last'.kind = "complete"
                           /\ last'.withdrawal \in DOMAIN time_lock_withdrawals
                           /\ last'.withdrawal
                                 \notin DOMAIN time_lock_withdrawals'
                           /\ time_lock_withdrawals[last'.withdrawal].balance
                                 = id
         ]_vars
    /\ [](\A id \in 1..Len(time_lock_balances) :
             time_lock_balances[id].amount.amount = 0 =>
                 /\ \A o \in DepositOps :
                       ( /\ time_lock_deposit_validate(o)
                         /\ o.balance = id
                         /\ o.account = time_lock_balances[id].owner
                         /\ o.asset_id = time_lock_balances[id].amount.asset_id
                         /\ get_balance(o.account, o.asset_id) >= o.amount )
                       => time_lock_deposit_evaluator(o).err = "OK"
                 /\ \A o \in WithdrawOps :
                       ( /\ time_lock_withdraw_validate(o)
                         /\ o.balance = id
                         /\ o.account = time_lock_balances[id].owner
                         /\ o.asset_id = time_lock_balances[id].amount.asset_id
                         /\ o.recipient \in Accounts )
                       => time_lock_withdraw_evaluator(o).err = "OK")

\* A complete_withdrawal has emptied a balance; the balance is in the index
\* with its review period, and a deposit and a withdraw by its owner would
\* be applied.
C18_Witness ==
    /\ last.kind = "complete"
    /\ \E id \in 1..Len(time_lock_balances) :
          /\ time_lock_balances[id].amount.amount = 0
          /\ time_lock_balances[id].review_period_seconds > 0
          /\ account_balances[last.recipient][time_lock_balances[id].amount.asset_id]
                >= last.amount
          /\ \E o \in DepositOps :
                o.balance = id /\ time_lock_deposit_evaluator(o).err = "OK"
          /\ \E o \in WithdrawOps :
                o.balance = id /\ time_lock_withdraw_evaluator(o).err = "OK"

\* C19: a create with review period <= 0 or initial deposit < 0, and a
\* deposit, a withdraw and a complete_withdrawal with amount <= 0, are
\* rejected with InvalidArgument whatever the database holds, and change
\* nothing; so every balance has a review period > 0 and every pending
\* withdrawal an amount > 0, and the withdrawal a step that applies a
\* withdraw creates has a finalize_date after the head_block_time of the
\* step.
C19_NonPositiveRejected ==
    /\ [](/\ \A o \in AllOps :
               ( \/ o.kind = "create" /\ o.review_period_seconds <= 0
                 \/ o.kind = "create" /\ o.amount < 0
                 \/ o.kind \in {"deposit", "withdraw", "complete"}
                       /\ o.amount <= 0 )
               => LET r == Process(o) IN
                  r.err = "InvalidArgument" /\ Untouched(r)
          /\ \A id \in 1..Len(time_lock_balances) :
               time_lock_balances[id].review_period_seconds > 0
          /\ \A id \in DOMAIN time_lock_withdrawals :
               time_lock_withdrawals[id].withdrawal > 0)
    /\ [][ Requests =>
             time_lock_withdrawals'[next_withdrawal_id].finalize_date
                > head_block_time
         ]_vars

\* The sum of f over the set S.
RECURSIVE SumOver(_, _)
SumOver(S, f) ==
    IF S = {} THEN 0
    ELSE LET x == CHOOSE y \in S : TRUE IN f[x] + SumOver(S \ {x}, f)

\* All there is of asset k: in the account balances and in the time_lock
\* balances of that asset.
TotalFunds(k) ==
    LET held == {id \in 1..Len(time_lock_balances) :
                    time_lock_balances[id].amount.asset_id = k}
    IN  SumOver(Accounts, [a \in Accounts |-> account_balances[a][k]])
        + SumOver(held, [id \in held |-> time_lock_balances[id].amount.amount])

\* C20: for each asset, the account balances and the amounts of the
\* time_lock balances of that asset sum, in every reachable state, to what
\* the account balances summed to at genesis (fees are not modelled).
C20_FundsConserved ==
    \A k \in Assets :
        TotalFunds(k) =
            SumOver(Accounts, [a \in Accounts |-> GenesisBalances[a][k]])

\* All the owner had went into one balance and a complete_withdrawal took
\* part of it out: the owner has nothing left, and what it had is partly in
\* the balance and partly with the recipient.
C20_Witness ==
    /\ last.kind = "complete"
    /\ Len(time_lock_balances) = 1
    /\ time_lock_balances[1].amount.amount > 0
    /\ account_balances[time_lock_balances[1].owner][last.asset_id] = 0
    /\ last.recipient # time_lock_balances[1].owner
    /\ account_balances[last.recipient][last.asset_id] > 0
    /\ \E o \in DepositOps :
          o.balance = 1 /\ Process(o).err = "InsufficientFunds"

\* The step applied an abort_withdrawal or a complete_withdrawal to
\* withdrawal id.
Ends(id) ==
    /\ last'.kind \in {"abort", "complete"}
    /\ last'.withdrawal = id
    /\ settled' # settled

\* C21: a pending withdrawal stays in the index, with the record it has,
\* through every step but the one that applies an abort_withdrawal or a
\* complete_withdrawal to it; a rejected complete_withdrawal, with
\* InsufficientFunds or ReviewPeriodNotElapsed among the reasons, leaves the
\* withdrawals as they are; and once head_block_time >= finalize_date and
\* the balance holds at least the recorded amount, every complete_withdrawal
\* validate() accepts, by the owner or the recipient, restating the recorded
\* recipient and amount in the balance's asset, is applied.
C21_PendingPersists ==
    /\ [][ \A id \in DOMAIN time_lock_withdrawals :
              \/ /\ id \in DOMAIN time_lock_withdrawals'
                 /\ time_lock_withdrawals'[id] = time_lock_withdrawals[id]
              \/ /\ id \notin DOMAIN time_lock_withdrawals'
                 /\ Ends(id)
         ]_vars
    /\ [](/\ \A o \in CompleteOps :
               LET r == Process(o) IN
               r.err # "OK" =>
                   r.time_lock_withdrawals = time_lock_withdrawals
          /\ \A id \in DOMAIN time_lock_withdrawals :
               LET withdrawal == time_lock_withdrawals[id]
                   balance == time_lock_balances[withdrawal.balance]
               IN  ( /\ head_block_time >= withdrawal.finalize_date
                     /\ balance.amount.amount >= withdrawal.withdrawal ) =>
                       \A o \in CompleteOps :
                           ( /\ time_lock_complete_withdrawal_validate(o)
                             /\ o.withdrawal = id
                             /\ o.account \in
                                   {balance.owner, withdrawal.recipient}
                             /\ o.recipient = withdrawal.recipient
                             /\ o.amount = withdrawal.withdrawal
                             /\ o.asset_id = balance.amount.asset_id )
                           => Process(o).err = "OK")

\* Two withdrawals were requested on one balance that did not cover the
\* first; the second has been aborted, the first is still pending, its
\* review period is over, and the owner's deposit has just topped the
\* balance up: before the deposit its completion was rejected with
\* InsufficientFunds, now the owner's and the recipient's are applied.
C21_Witness ==
    /\ last.kind = "deposit"
    /\ HasWithdrawal(1)
    /\ ~HasWithdrawal(2)
    /\ 2 \in DOMAIN settled
    /\ settled[2] = <<"abort">>
    /\ LET withdrawal == time_lock_withdrawals[1]
           balance == time_lock_balances[withdrawal.balance]
       IN  /\ withdrawal.balance = last.balance
           /\ head_block_time >= withdrawal.finalize_date
           /\ balance.amount.amount >= withdrawal.withdrawal
           /\ balance.amount.amount - last.amount < withdrawal.withdrawal
           /\ \A a \in {balance.owner, withdrawal.recipient} :
                 \E o \in CompleteOps :
                     /\ o.account = a
                     /\ o.withdrawal = 1
                     /\ Process(o).err = "OK"
           /\ balance.owner # withdrawal.recipient

=============================================================================
